---- MODULE Spec2Model ----
(***************************************************************************)
(* A model of db-wrapper: the DB-agnostic core (core.js: DatabaseError,    *)
(* DbWrapper.countPlaceholders / validateParams / wrapDatabaseError /      *)
(* query / getOne / get / exec) and the transaction helper of the MySQL    *)
(* adapter (adapters/mysql.js: transaction).                               *)
(*                                                                         *)
(* SQL text is a sequence of one-character strings.  JavaScript values     *)
(* that can be bound as parameters are named by the strings of Values.     *)
(***************************************************************************)
EXTENDS Integers, Sequences, FiniteSets, TLC

VARIABLES
    sql,           \* the SQL text of the current call
    params,        \* the params argument of the current call
    count,         \* result of countPlaceholders(sql), -1 before the call
    vres,          \* result of validateParams(sql, params)
    adapterHas,    \* optional methods the adapter object has
    pc,            \* position of the current wrapper call
    op,            \* wrapper method called: query / getOne / get / exec
    path,          \* "specialized" or "fallback" (through query)
    adapterCalls,  \* adapter methods invoked by the current call, in order
    settled,       \* state of the promise returned by the adapter method
    outcome,       \* what the caller of the wrapper method observes
    log,           \* console.error records emitted by DatabaseError()
    txpc,          \* position inside adapter.transaction(connection, callback)
    connLog,       \* calls seen by the connection, in order, with outcome
    unitInvoked,   \* number of times the callback was invoked
    unitResult,    \* value the callback returned
    unitFailure,   \* error the callback failed with
    txError,       \* the error caught by transaction's catch block
    txOutcome,     \* what the caller of transaction() or of a member observes
    db,            \* what wrap(connection, adapterType) returned or raised
    hasAtWrap,     \* optional methods the adapter object had when wrap ran
    mutations,     \* methods added to / removed from the adapter object so far
    eqIn,          \* a call and a driver outcome to run on both paths
    eqFirst,       \* the outcome of that call on the specialized path
    tx2            \* a second transaction() call on the same connection

vars == <<sql, params, count, vres, adapterHas, pc, op, path, adapterCalls,
          settled, outcome, log, txpc, connLog, unitInvoked, unitResult, unitFailure,
          txError, txOutcome, db, hasAtWrap, mutations, eqIn, eqFirst, tx2>>

pureVars == <<count, vres>>
callVars == <<adapterHas, pc, op, path, adapterCalls, settled, outcome, log>>
txVars   == <<txpc, connLog, unitInvoked, unitResult, unitFailure, txError,
              txOutcome>>
wrapVars == <<db, hasAtWrap, mutations>>
eqVars   == <<eqIn, eqFirst>>

(***************************************************************************)
(* Bounds                                                                  *)
(***************************************************************************)
MaxSqlLen    == 5   \* longest SQL text given to countPlaceholders
MaxValSqlLen == 3   \* longest SQL text given to validateParams
MaxParams    == 2   \* longest params array
MaxUnitCalls == 2   \* most statements a unit of work executes
MaxManualCalls == 2 \* most connection calls made through members by hand
MaxMutations == 2   \* most changes made to the methods of the adapter object

(***************************************************************************)
(* Text                                                                    *)
(***************************************************************************)
Digits   == {"0", "1"}
Letters  == {"a"}
Chars    == {"?", "$", ":", " "} \cup Digits \cup Letters

IsDigit(c) == c \in Digits
\* \w of a JavaScript regular expression: letters, digits, underscore
IsWord(c)  == c \in Digits \cup Letters

SeqsUpTo(S, n) == UNION {[1..k -> S] : k \in 0..n}
SqlTexts(n)    == SeqsUpTo(Chars, n)

(***************************************************************************)
(* countPlaceholders                                                       *)
(***************************************************************************)
\* sql.match(/\?/g): the matches, in order (JavaScript yields null for none)
RECURSIVE QuestionMarkMatches(_, _)
QuestionMarkMatches(s, i) ==
    IF i > Len(s) THEN <<>>
    ELSE IF s[i] = "?" THEN <<"?">> \o QuestionMarkMatches(s, i + 1)
    ELSE QuestionMarkMatches(s, i + 1)

\* length of the greedy \d+ run starting at position i
RECURSIVE DigitRun(_, _)
DigitRun(s, i) ==
    IF i <= Len(s) /\ IsDigit(s[i]) THEN 1 + DigitRun(s, i + 1) ELSE 0

\* sql.match(/\$\d+/g): leftmost, greedy, non-overlapping matches
RECURSIVE DollarMatches(_, _)
DollarMatches(s, i) ==
    IF i > Len(s) THEN <<>>
    ELSE IF s[i] = "$" /\ DigitRun(s, i + 1) > 0
         THEN <<SubSeq(s, i, i + DigitRun(s, i + 1))>>
              \o DollarMatches(s, i + 1 + DigitRun(s, i + 1))
         ELSE DollarMatches(s, i + 1)

\* length of the greedy \w+ run starting at position i
RECURSIVE WordRun(_, _)
WordRun(s, i) ==
    IF i <= Len(s) /\ IsWord(s[i]) THEN 1 + WordRun(s, i + 1) ELSE 0

\* sql.match(/:\w+/g)
RECURSIVE NamedMatches(_, _)
NamedMatches(s, i) ==
    IF i > Len(s) THEN <<>>
    ELSE IF s[i] = ":" /\ WordRun(s, i + 1) > 0
         THEN <<SubSeq(s, i, i + WordRun(s, i + 1))>>
              \o NamedMatches(s, i + 1 + WordRun(s, i + 1))
         ELSE NamedMatches(s, i + 1)

DigitValue(c) == IF c = "1" THEN 1 ELSE 0

\* parseInt(m.substring(1)) of a match m = "$" followed by decimal digits
RECURSIVE ParseDigits(_, _)
ParseDigits(d, acc) ==
    IF Len(d) = 0 THEN acc
    ELSE ParseDigits(Tail(d), 10 * acc + DigitValue(Head(d)))

ParseInt(d) == ParseDigits(d, 0)

Range(f) == {f[i] : i \in DOMAIN f}

\* a variant that adds the three styles up
countPlaceholdersSummed(s) ==
    Len(QuestionMarkMatches(s, 1))
    + Cardinality({ParseInt(Tail(m)) : m \in Range(DollarMatches(s, 1))})
    + Len(NamedMatches(s, 1))

\* a variant that counts every $n occurrence
countPlaceholdersEveryDollar(s) ==
    IF Len(QuestionMarkMatches(s, 1)) > 0 THEN Len(QuestionMarkMatches(s, 1))
    ELSE IF Len(DollarMatches(s, 1)) > 0 THEN Len(DollarMatches(s, 1))
    ELSE Len(NamedMatches(s, 1))

\* a variant that counts each distinct :name once
countPlaceholdersDistinctNames(s) ==
    IF Len(QuestionMarkMatches(s, 1)) > 0 THEN Len(QuestionMarkMatches(s, 1))
    ELSE IF Len(DollarMatches(s, 1)) > 0
         THEN Cardinality({ParseInt(Tail(m)) : m \in Range(DollarMatches(s, 1))})
    ELSE Cardinality(Range(NamedMatches(s, 1)))

countPlaceholders(s) ==
    LET questionMarkMatches == QuestionMarkMatches(s, 1)
        dollarMatches       == DollarMatches(s, 1)
        namedMatches        == NamedMatches(s, 1)
    IN  IF Len(questionMarkMatches) > 0 THEN Len(questionMarkMatches)
        ELSE IF Len(dollarMatches) > 0
             THEN Cardinality({ParseInt(Tail(m)) : m \in Range(dollarMatches)})
        ELSE IF Len(namedMatches) > 0 THEN Len(namedMatches)
        ELSE 0

(***************************************************************************)
(* JavaScript values bound as parameters, and the params argument          *)
(***************************************************************************)
\* the number 1, the number 0, the empty string, null and undefined
Values == {"1", "0", "''", "null", "undefined"}

\* a params argument: an array (arr) of items, or a single non-array value
\* held as the only item
ArrayOf(items) == [arr |-> TRUE, items |-> items]
Scalar(v)      == [arr |-> FALSE, items |-> <<v>>]

ParamValues(n) == {ArrayOf(it) : it \in SeqsUpTo(Values, n)}
                  \cup {Scalar(v) : v \in Values}

\* ToBoolean of a params argument: every array is truthy
Truthy(p) == p.arr \/ p.items[1] = "1"

(***************************************************************************)
(* DatabaseError                                                           *)
(***************************************************************************)
NoMsg == [form |-> "absent", has |-> {}]

\* the values interpolated into a details string
Details(what, expected, got, index, s, p, original, code) ==
    [what |-> what, expected |-> expected, got |-> got, index |-> index,
     sql |-> s, params |-> p, original |-> original, code |-> code]

NoDetails == Details("", -1, -1, -1, <<>>, ArrayOf(<<>>), NoMsg, "")

\* the object built by new DatabaseError(message, details, type)
DatabaseError(message, details, type) ==
    [kind |-> "DatabaseError", message |-> message, details |-> details,
     type |-> type]

\* the record the constructor writes with console.error
LogRecord(e) == [type |-> e.type, message |-> e.message, details |-> e.details]

NoError == [kind |-> "none", message |-> "", details |-> NoDetails, type |-> ""]

\* a TypeError raised by the JavaScript runtime
TypeError == [kind |-> "TypeError", message |-> "TypeError",
              details |-> NoDetails, type |-> ""]

\* new Error(message)
NewError(message) == [kind |-> "Error", message |-> message,
                      details |-> NoDetails, type |-> ""]

ValidationTypes == {"VALIDATION_MISMATCH", "VALIDATION_EMPTY"}
DbTypes == {"DB_DUPLICATE", "DB_FOREIGN_KEY", "DB_TABLE_NOT_FOUND",
            "DB_FIELD_ERROR", "DB_CONNECTION", "DB_QUERY", "DB_UNKNOWN"}

(***************************************************************************)
(* validateParams                                                          *)
(***************************************************************************)
\* a variant that tests for empty values before it compares the counts
validateParamsEmptyFirst(s, p) ==
    LET placeholderCount == countPlaceholders(s)
        paramArray       == IF p.arr \/ p.items[1] = "1" THEN p.items ELSE <<>>
        empties          == {k \in DOMAIN paramArray :
                               paramArray[k] \in {"null", "undefined", "''"}}
    IN  IF empties # {}
        THEN [ok |-> FALSE, error |->
                DatabaseError("Invalid request parameters",
                    Details("empty", -1, -1,
                            (CHOOSE k \in empties : \A m \in empties : k <= m) - 1,
                            s, ArrayOf(paramArray), NoMsg, ""),
                    "VALIDATION_EMPTY")]
        ELSE IF placeholderCount # Len(paramArray)
        THEN [ok |-> FALSE, error |->
                DatabaseError("Invalid request parameters",
                    Details("mismatch", placeholderCount, Len(paramArray), -1,
                            s, ArrayOf(paramArray), NoMsg, ""),
                    "VALIDATION_MISMATCH")]
        ELSE [ok |-> TRUE, error |-> NoError]

\* Array.isArray(params) ? params : (params ? [params] : [])
ParamArray(p) == IF p.arr THEN p.items ELSE IF Truthy(p) THEN p.items ELSE <<>>

IsEmptyValue(v) == v = "null" \/ v = "undefined" \/ v = "''"

\* the for loop: index (from 1) of the first empty value at or after i, 0 if none
RECURSIVE FirstEmpty(_, _)
FirstEmpty(a, i) ==
    IF i > Len(a) THEN 0
    ELSE IF IsEmptyValue(a[i]) THEN i
    ELSE FirstEmpty(a, i + 1)

Passed == [ok |-> TRUE, error |-> NoError]
Threw(e) == [ok |-> FALSE, error |-> e]

validateParams(s, p) ==
    LET placeholderCount == countPlaceholders(s)
        paramArray       == ParamArray(p)
        i                == FirstEmpty(paramArray, 1)
    IN  IF placeholderCount # Len(paramArray)
        THEN Threw(DatabaseError("Invalid request parameters",
                 Details("mismatch", placeholderCount, Len(paramArray), -1,
                         s, ArrayOf(paramArray), NoMsg, ""),
                 "VALIDATION_MISMATCH"))
        ELSE IF i > 0
        THEN Threw(DatabaseError("Invalid request parameters",
                 Details("empty", -1, -1, i - 1, s, ArrayOf(paramArray),
                         NoMsg, ""),
                 "VALIDATION_EMPTY"))
        ELSE Passed

(***************************************************************************)
(* Values an adapter call can reject with                                  *)
(***************************************************************************)
Keywords == {"UNIQUE constraint", "connect", "connection", "syntax", "SQL"}

\* error.message: absent, a string (described by the keywords it contains;
\* a text containing "connection" contains "connect"), or not a string
Msgs == {NoMsg, [form |-> "nonstring", has |-> {}]}
        \cup {[form |-> "string", has |-> h] :
                h \in {k \in SUBSET Keywords :
                         "connection" \in k => "connect" \in k}}

NoCode == "<absent>"
Codes == {"ER_DUP_ENTRY", "ER_NO_SUCH_TABLE", "ER_BAD_FIELD_ERROR",
          "SQLITE_CONSTRAINT", "23505", "23503", "ECONNREFUSED",
          "ENOTFOUND", "ETIMEDOUT", "OTHER", NoCode}

\* a rejection value: null/undefined, an object with optional code and
\* message, or an instance of DatabaseError
Nullish == [kind |-> "nullish", code |-> NoCode, msg |-> NoMsg,
            dberr |-> NoError]
ErrorObject(code, msg) == [kind |-> "object", code |-> code, msg |-> msg,
                           dberr |-> NoError]
Classified(e) == [kind |-> "DatabaseError", code |-> NoCode, msg |-> NoMsg,
                  dberr |-> e]

ThrownDatabaseErrors ==
    {DatabaseError("This record already exists", NoDetails, "DB_DUPLICATE"),
     DatabaseError("Unable to connect to database", NoDetails, "DB_CONNECTION")}

RejectValues == {Nullish}
                \cup {ErrorObject(c, m) : c \in Codes, m \in Msgs}
                \cup {Classified(e) : e \in ThrownDatabaseErrors}

(***************************************************************************)
(* wrapDatabaseError                                                       *)
(***************************************************************************)
\* error.message?.includes(k): undefined for an absent message, a TypeError
\* for a message that has no includes method
IncludesThrows(m) == m.form = "nonstring"
Includes(m, k)    == m.form = "string" /\ k \in m.has

\* a variant of the chain that tests the connection and query rules before
\* the PostgreSQL codes
ClassifyMessageFirst(error) ==
    IF error.code = "ER_DUP_ENTRY"
    THEN <<"This record already exists", "DB_DUPLICATE">>
    ELSE IF error.code = "ER_NO_SUCH_TABLE"
    THEN <<"Unable to process request", "DB_TABLE_NOT_FOUND">>
    ELSE IF error.code = "ER_BAD_FIELD_ERROR"
    THEN <<"Invalid request parameters", "DB_FIELD_ERROR">>
    ELSE IF error.code = "SQLITE_CONSTRAINT"
    THEN <<"This record already exists", "DB_DUPLICATE">>
    ELSE IF IncludesThrows(error.msg)
    THEN <<"throw", "TypeError">>
    ELSE IF Includes(error.msg, "UNIQUE constraint")
    THEN <<"This record already exists", "DB_DUPLICATE">>
    ELSE IF \/ error.code = "ECONNREFUSED"
            \/ error.code = "ENOTFOUND"
            \/ error.code = "ETIMEDOUT"
            \/ Includes(error.msg, "connect")
            \/ Includes(error.msg, "connection")
    THEN <<"Unable to connect to database", "DB_CONNECTION">>
    ELSE IF Includes(error.msg, "syntax") \/ Includes(error.msg, "SQL")
    THEN <<"Unable to process request", "DB_QUERY">>
    ELSE IF error.code = "23505"
    THEN <<"This record already exists", "DB_DUPLICATE">>
    ELSE IF error.code = "23503"
    THEN <<"Cannot perform this operation", "DB_FOREIGN_KEY">>
    ELSE <<"Something went wrong. Please try again.", "DB_UNKNOWN">>

\* the if / else-if chain: <<userMessage, errorType>>, or "throw" when the
\* evaluation of a condition raises
Classify(error) ==
    IF error.code = "ER_DUP_ENTRY"
    THEN <<"This record already exists", "DB_DUPLICATE">>
    ELSE IF error.code = "ER_NO_SUCH_TABLE"
    THEN <<"Unable to process request", "DB_TABLE_NOT_FOUND">>
    ELSE IF error.code = "ER_BAD_FIELD_ERROR"
    THEN <<"Invalid request parameters", "DB_FIELD_ERROR">>
    ELSE IF error.code = "SQLITE_CONSTRAINT"
    THEN <<"This record already exists", "DB_DUPLICATE">>
    ELSE IF IncludesThrows(error.msg)
    THEN <<"throw", "TypeError">>
    ELSE IF Includes(error.msg, "UNIQUE constraint")
    THEN <<"This record already exists", "DB_DUPLICATE">>
    ELSE IF error.code = "23505"
    THEN <<"This record already exists", "DB_DUPLICATE">>
    ELSE IF error.code = "23503"
    THEN <<"Cannot perform this operation", "DB_FOREIGN_KEY">>
    ELSE IF \/ error.code = "ECONNREFUSED"
            \/ error.code = "ENOTFOUND"
            \/ error.code = "ETIMEDOUT"
            \/ Includes(error.msg, "connect")
            \/ Includes(error.msg, "connection")
    THEN <<"Unable to connect to database", "DB_CONNECTION">>
    ELSE IF Includes(error.msg, "syntax") \/ Includes(error.msg, "SQL")
    THEN <<"Unable to process request", "DB_QUERY">>
    ELSE <<"Something went wrong. Please try again.", "DB_UNKNOWN">>

\* the error wrapDatabaseError returns, or the TypeError it raises (reading
\* .code of null/undefined, or calling includes on a non-string message)
wrapDatabaseError(error, s, p) ==
    IF error.kind = "nullish" THEN TypeError
    ELSE LET c == Classify(error)
         IN  IF c[1] = "throw" THEN TypeError
             ELSE DatabaseError(c[1],
                      Details("wrap", -1, -1, -1, s, p, error.msg,
                              IF error.code = NoCode THEN "N/A" ELSE error.code),
                      c[2])

(***************************************************************************)
(* Results of adapter calls and of wrapper calls                           *)
(***************************************************************************)
\* an array of rows, or a single non-array value (a row, a mutation report,
\* null, undefined)
Rows(rows) == [arr |-> TRUE, rows |-> rows, other |-> ""]
Single(v)  == [arr |-> FALSE, rows |-> <<>>, other |-> v]

Results == {Rows(<<>>), Rows(<<"r1">>), Rows(<<"r1", "r2">>),
            Single("report"), Single("undefined")}

Pending      == [how |-> "pending", value |-> Single("undefined"),
                 reason |-> Nullish]
Resolved(r)  == [how |-> "resolved", value |-> r, reason |-> Nullish]
Rejected(e)  == [how |-> "rejected", value |-> Single("undefined"),
                 reason |-> e]

NoOutcome    == [status |-> "pending", value |-> Single("undefined"),
                 error |-> NoError]
Returned(v)  == [status |-> "returned", value |-> v, error |-> NoError]
Thrown(e)    == [status |-> "threw", value |-> Single("undefined"),
                 error |-> e]

NotRun == [ok |-> FALSE, error |-> NoError]

OptionalMethods == {"getOne", "get", "exec"}

\* SQL texts given to the wrapper methods: no placeholder, ?, ? ?, $1, :a
OpSqls == {<<" ">>, <<"?">>, <<"?", "?">>, <<"$", "1">>, <<":", "a">>}

(***************************************************************************)
(* adapters/mysql.js: what each adapter method makes of the first element  *)
(* of the pair connection.execute resolves with                            *)
(***************************************************************************)
MysqlExecuteQuery(rows) == rows

MysqlGetOne(rows) ==
    IF rows.arr /\ Len(rows.rows) > 0 THEN Single(rows.rows[1])
    ELSE Single("null")

MysqlGet(rows) == IF rows.arr THEN rows ELSE Rows(<<>>)

MysqlExec(result) == result

MysqlMethod(method, r) ==
    CASE method = "getOne" -> MysqlGetOne(r)
      [] method = "get"    -> MysqlGet(r)
      [] method = "exec"   -> MysqlExec(r)
      [] OTHER             -> MysqlExecuteQuery(r)

(***************************************************************************)
(* index.js: wrap(connection, adapterType)                                 *)
(***************************************************************************)
TxMethods == {"beginTransaction", "commit", "rollback", "transaction"}

\* the optional methods of an adapter object
AdapterMethods == OptionalMethods \cup TxMethods

Absent == "<absent>"

Connections  == {Absent, "connection"}
AdapterTypes == {Absent, "", "mysql", "sqlite", "mongodb", "../index"}

\* !x for the arguments of wrap
Falsy(x) == x \in {Absent, ""}

\* require(`./adapters/${adapterType}`): the path is resolved from the
\* directory of index.js, so "../index" names index.js itself
NotFound == "<not found>"
Require(adapterType) ==
    IF adapterType = "mysql" THEN "adapters/mysql"
    ELSE IF adapterType = "../index" THEN "index"
    ELSE NotFound

\* new Error(message), the message kept as the pieces of its template
ConfigError(pieces) == [kind |-> "Error", pieces |-> pieces]
NoConfigError == [kind |-> "none", pieces |-> <<>>]

\* the keys of the object literal db
CoreMembers == {"query", "getOne", "get", "exec"}
DbMembers == CoreMembers \cup TxMethods
                 \cup {"_connection", "_adapter", "_wrapper"}

NotWrapped == [status |-> "none", connection |-> Absent,
               adapterType |-> Absent, error |-> NoConfigError,
               adapter |-> NotFound, members |-> {}, functions |-> {}]

WrapThrew(connection, adapterType, e) ==
    [status |-> "threw", connection |-> connection,
     adapterType |-> adapterType, error |-> e,
     adapter |-> NotFound, members |-> {}, functions |-> {}]

\* has: the optional methods of the object require returns.  Every key of
\* the literal is a member; a transaction key holds a function when the
\* adapter has the method and undefined when it has not
wrap(connection, adapterType, has) ==
    IF connection = Absent
    THEN WrapThrew(connection, adapterType,
             ConfigError(<<"Connection object is required">>))
    ELSE IF Falsy(adapterType)
    THEN WrapThrew(connection, adapterType,
             ConfigError(<<"Adapter type is required (e.g., \"mysql\", \"sqlite\", \"postgres\")">>))
    ELSE IF Require(adapterType) = NotFound
    THEN WrapThrew(connection, adapterType,
             ConfigError(<<"Adapter \"", adapterType,
                           "\" not found or not implemented. Available adapters: ",
                           "mysql">>))
    ELSE [status |-> "created", connection |-> connection,
          adapterType |-> adapterType, error |-> NoConfigError,
          adapter |-> Require(adapterType), members |-> DbMembers,
          functions |-> CoreMembers \cup (TxMethods \cap has)]

\* a call and a driver outcome for the comparison of the two paths
NoEq == [op |-> "", sql |-> <<>>, params |-> ArrayOf(<<>>),
         driver |-> Pending]

(***************************************************************************)
(* States in which nothing has been called                                 *)
(***************************************************************************)
PureIdle == /\ count = -1
            /\ vres = NotRun

CallIdle == /\ pc = "idle"
            /\ op = ""
            /\ path = ""
            /\ adapterCalls = <<>>
            /\ settled = Pending
            /\ outcome = NoOutcome
            /\ log = <<>>

TxIdle == /\ txpc = "idle"
          /\ connLog = <<>>
          /\ unitInvoked = 0
          /\ unitResult = ""
          /\ unitFailure = NoError
          /\ txError = NoError
          /\ txOutcome = NoOutcome

WrapIdle == /\ db = NotWrapped
            /\ hasAtWrap = {}
            /\ mutations = 0

EqIdle == /\ eqIn = NoEq
          /\ eqFirst = NoOutcome

\* the second call: where it stands, whether the unit of the first call is
\* awaiting it, the value its unit returned, the error its catch block
\* caught, and what its caller observes
NoTx2 == [pc |-> "idle", awaited |-> FALSE, result |-> "", error |-> NoError,
          outcome |-> NoOutcome]

Tx2Idle == tx2 = NoTx2

(***************************************************************************)
(* countPlaceholders and validateParams called directly                    *)
(***************************************************************************)
InitCount == /\ sql \in SqlTexts(MaxSqlLen)
             /\ params = ArrayOf(<<>>)
             /\ adapterHas = {}
             /\ PureIdle /\ CallIdle /\ TxIdle /\ WrapIdle /\ EqIdle /\ Tx2Idle

CountPlaceholders ==
    /\ count = -1
    /\ count' = countPlaceholders(sql)
    /\ UNCHANGED <<sql, params, vres, callVars, txVars, wrapVars, eqVars, tx2>>

NextCount == CountPlaceholders

SpecCount == InitCount /\ [][NextCount]_vars

InitValidate == /\ sql \in SqlTexts(MaxValSqlLen)
                /\ params \in ParamValues(MaxParams)
                /\ adapterHas = {}
                /\ PureIdle /\ CallIdle /\ TxIdle /\ WrapIdle /\ EqIdle /\ Tx2Idle

ValidateParams ==
    /\ vres = NotRun
    /\ vres' = validateParams(sql, params)
    /\ log' = IF vres'.ok THEN log ELSE Append(log, LogRecord(vres'.error))
    /\ UNCHANGED <<sql, params, count, adapterHas, pc, op, path, adapterCalls,
                   settled, outcome, txVars, wrapVars, eqVars, tx2>>

NextValidate == ValidateParams

SpecValidate == InitValidate /\ [][NextValidate]_vars

(***************************************************************************)
(* DbWrapper.query / getOne / get / exec                                   *)
(***************************************************************************)
Init == /\ sql = <<>>
        /\ params = ArrayOf(<<>>)
        /\ adapterHas \in SUBSET OptionalMethods
        /\ PureIdle /\ CallIdle /\ TxIdle /\ WrapIdle /\ EqIdle /\ Tx2Idle

\* the default value of the params argument: params = []
DefaultParams(p) == IF p = Scalar("undefined") THEN ArrayOf(<<>>) ELSE p

\* a variant of the try block that calls the adapter method before it
\* validates
TryCallFirst(o, method, pth, s, p) ==
    LET v == validateParams(s, p)
    IN  /\ op' = o
        /\ path' = pth
        /\ sql' = s
        /\ params' = p
        /\ adapterCalls' = Append(adapterCalls,
                [method |-> method, sql |-> s, params |-> p])
        /\ IF v.ok
           THEN /\ pc' = "awaiting"
                /\ UNCHANGED <<outcome, log>>
           ELSE /\ pc' = "done"
                /\ outcome' = Thrown(v.error)
                /\ log' = Append(log, LogRecord(v.error))
        /\ UNCHANGED <<count, vres, adapterHas, settled, txVars, wrapVars,
                       eqVars, tx2>>

\* a variant of the try block that hands the adapter the array validation
\* has normalized the params to
TryForwardsNormalized(o, method, pth, s, p) ==
    LET v == validateParams(s, p)
    IN  /\ op' = o
        /\ path' = pth
        /\ sql' = s
        /\ params' = p
        /\ IF v.ok
           THEN /\ adapterCalls' = Append(adapterCalls,
                        [method |-> method, sql |-> s,
                         params |-> ArrayOf(ParamArray(p))])
                /\ pc' = "awaiting"
                /\ UNCHANGED <<outcome, log>>
           ELSE /\ pc' = "done"
                /\ outcome' = Thrown(v.error)
                /\ log' = Append(log, LogRecord(v.error))
                /\ UNCHANGED adapterCalls
        /\ UNCHANGED <<count, vres, adapterHas, settled, txVars, wrapVars,
                       eqVars, tx2>>

\* the try block up to its await: validateParams, then the adapter method
\* is called with (connection, sql, params); a DatabaseError from validation
\* is rethrown by the catch block
Try(o, method, pth, s, p) ==
    LET v == validateParams(s, p)
    IN  /\ op' = o
        /\ path' = pth
        /\ sql' = s
        /\ params' = p
        /\ IF v.ok
           THEN /\ adapterCalls' = Append(adapterCalls,
                        [method |-> method, sql |-> s, params |-> p])
                /\ pc' = "awaiting"
                /\ UNCHANGED <<outcome, log>>
           ELSE /\ pc' = "done"
                /\ outcome' = Thrown(v.error)
                /\ log' = Append(log, LogRecord(v.error))
                /\ UNCHANGED adapterCalls
        /\ UNCHANGED <<count, vres, adapterHas, settled, txVars, wrapVars,
                       eqVars, tx2>>

\* query(sql, params) for sql in S and params in P
QueryWith(S, P) ==
    /\ pc = "idle"
    /\ \E s \in S, p \in P :
        Try("query", "executeQuery", "query", s, DefaultParams(p))

query == QueryWith(OpSqls, ParamValues(MaxParams))

\* a variant of the helpers that decides the path by the methods the
\* adapter had when the wrapper was made
HelperProbedAtWrap(o, S, P) ==
    /\ pc = "idle"
    /\ \E s \in S, p \in P :
        IF o \in hasAtWrap
        THEN Try(o, o, "specialized", s, DefaultParams(p))
        ELSE Try(o, "executeQuery", "fallback", s, DefaultParams(p))

\* a helper called with sql in S and params in P: the adapter's own method
\* when this.adapter has one now, else this.query
HelperWith(o, S, P) ==
    /\ pc = "idle"
    /\ \E s \in S, p \in P :
        IF o \in adapterHas
        THEN Try(o, o, "specialized", s, DefaultParams(p))
        ELSE Try(o, "executeQuery", "fallback", s, DefaultParams(p))

Helper(o) == HelperWith(o, OpSqls, ParamValues(MaxParams))

getOne == Helper("getOne")
get    == Helper("get")
exec   == Helper("exec")

\* a variant of the fallback that hands a non-array result of get through
PostProcessNoCoerce(o, r) ==
    IF o = "getOne"
    THEN IF r.arr /\ Len(r.rows) > 0 THEN Single(r.rows[1]) ELSE Single("null")
    ELSE r

\* a variant of the fallback in which getOne hands on result[0] as it is
PostProcessNoNull(o, r) ==
    IF o = "getOne"
    THEN IF r.arr
         THEN IF Len(r.rows) > 0 THEN Single(r.rows[1])
              ELSE Single("undefined")
         ELSE Single("null")
    ELSE IF o = "get"
    THEN IF r.arr THEN r ELSE Rows(<<>>)
    ELSE r

\* what a helper makes of the result of this.query on the fallback path
PostProcess(o, r) ==
    IF o = "getOne"
    THEN IF r.arr /\ Len(r.rows) > 0 THEN Single(r.rows[1]) ELSE Single("null")
    ELSE IF o = "get"
    THEN IF r.arr THEN r ELSE Rows(<<>>)
    ELSE r

\* the adapter's promise fulfils: the value is returned (after the
\* fallback's post-processing)
ResolveWith(r) ==
    /\ settled' = Resolved(r)
    /\ outcome' = Returned(IF path = "fallback" THEN PostProcess(op, r)
                            ELSE r)
    /\ pc' = "done"
    /\ UNCHANGED <<sql, params, count, vres, adapterHas, op, path,
                   adapterCalls, log, txVars, wrapVars, eqVars, tx2>>

AdapterResolve ==
    /\ pc = "awaiting"
    /\ \E r \in Results : ResolveWith(r)

\* a variant of the catch block that classifies whatever it catches
CatchAlwaysWraps(e, s, p) == wrapDatabaseError(e, s, p)

\* the catch block: a DatabaseError is rethrown, anything else is replaced
\* by wrapDatabaseError(error, sql, params)
Catch(e, s, p) ==
    IF e.kind = "DatabaseError" THEN e.dberr ELSE wrapDatabaseError(e, s, p)

\* the adapter's promise rejects with e
RejectWith(e) ==
    LET err == Catch(e, sql, params)
    IN  /\ settled' = Rejected(e)
        /\ outcome' = Thrown(err)
        /\ log' = IF e.kind # "DatabaseError" /\ err.kind = "DatabaseError"
                  THEN Append(log, LogRecord(err)) ELSE log
        /\ pc' = "done"
        /\ UNCHANGED <<sql, params, count, vres, adapterHas, op, path,
                       adapterCalls, txVars, wrapVars, eqVars, tx2>>

AdapterReject ==
    /\ pc = "awaiting"
    /\ \E e \in RejectValues : RejectWith(e)

Next == \/ query
        \/ getOne
        \/ get
        \/ exec
        \/ AdapterResolve
        \/ AdapterReject

Spec == Init /\ [][Next]_vars

(***************************************************************************)
(* The same call over the MySQL adapter on both paths: first with the      *)
(* adapter as adapters/mysql.js exports it, then with the method of the    *)
(* helper removed.  connection.execute settles the same way both times.    *)
(***************************************************************************)
EqSqls   == {<<" ">>, <<"?">>}
EqParams == {Scalar("undefined"), Scalar("1"), ArrayOf(<<>>),
             ArrayOf(<<"1">>), ArrayOf(<<"''">>)}

DriverOutcomes == {Resolved(r) : r \in Results}
                      \cup {Rejected(e) : e \in RejectValues}

InitEq == /\ sql = <<>>
          /\ params = ArrayOf(<<>>)
          /\ adapterHas = AdapterMethods
          /\ eqIn \in [op : OptionalMethods, sql : EqSqls, params : EqParams,
                       driver : DriverOutcomes]
          /\ eqFirst = NoOutcome
          /\ PureIdle /\ CallIdle /\ TxIdle /\ WrapIdle /\ Tx2Idle

EqCall ==
    /\ pc = "idle"
    /\ HelperWith(eqIn.op, {eqIn.sql}, {eqIn.params})

\* connection.execute settles inside the adapter method that was called;
\* the method rethrows a rejection as it is
EqDriver ==
    /\ pc = "awaiting"
    /\ IF eqIn.driver.how = "resolved"
       THEN ResolveWith(MysqlMethod(adapterCalls[Len(adapterCalls)].method,
                                    eqIn.driver.value))
       ELSE RejectWith(eqIn.driver.reason)

\* the first call is over: its outcome is kept, the method is deleted from
\* the adapter object, and the call is made again
EqRemoveMethod ==
    /\ pc = "done"
    /\ path = "specialized"
    /\ eqFirst' = outcome
    /\ adapterHas' = adapterHas \ {op}
    /\ pc' = "idle"
    /\ op' = ""
    /\ path' = ""
    /\ adapterCalls' = <<>>
    /\ settled' = Pending
    /\ outcome' = NoOutcome
    /\ log' = <<>>
    /\ UNCHANGED <<sql, params, pureVars, txVars, wrapVars, eqIn, tx2>>

NextEq == \/ EqCall
          \/ EqDriver
          \/ EqRemoveMethod

SpecEq == InitEq /\ [][NextEq]_vars

(***************************************************************************)
(* adapters/mysql.js: transaction(connection, callback)                    *)
(*                                                                         *)
(* The callback is the caller's unit of work.  It executes statements      *)
(* through the wrapper (each one reaches connection.execute), and then     *)
(* returns a value or fails: with the DatabaseError of a failed statement, *)
(* or with an error of its own.                                            *)
(***************************************************************************)
UnitValues == {"success", "undefined"}

\* driver errors a statement inside the unit fails with
UnitDriverErrors ==
    {ErrorObject("ER_DUP_ENTRY", NoMsg),
     ErrorObject("23503", NoMsg),
     ErrorObject(NoCode, [form |-> "string", has |-> {"connect"}]),
     ErrorObject(NoCode, [form |-> "string", has |-> {}])}

UnitSql    == <<"?">>
UnitParams == ArrayOf(<<"1">>)

ConnCall(call, ok) == [call |-> call, ok |-> ok]

\* db = wrap(connection, 'mysql') over the adapter as adapters/mysql.js
\* exports it
InitTx == /\ sql = <<>>
          /\ params = ArrayOf(<<>>)
          /\ adapterHas = AdapterMethods
          /\ db = wrap("connection", "mysql", AdapterMethods)
          /\ hasAtWrap = AdapterMethods
          /\ mutations = 0
          /\ PureIdle /\ CallIdle /\ TxIdle /\ EqIdle /\ Tx2Idle

\* a variant in which connection.beginTransaction() is awaited outside the
\* try block
BeginTransactionOutsideTry ==
    /\ txpc = "idle"
    /\ \E ok \in BOOLEAN :
        /\ connLog' = Append(connLog, ConnCall("beginTransaction", ok))
        /\ IF ok
           THEN /\ txpc' = "callback"
                /\ UNCHANGED <<txError, txOutcome>>
           ELSE /\ txpc' = "done"
                /\ txError' = NewError("begin failed")
                /\ txOutcome' = Thrown(NewError("begin failed"))
    /\ UNCHANGED <<wrapVars, eqVars, tx2, sql, params, pureVars,
                   callVars, unitInvoked, unitResult, unitFailure>>

\* try { await connection.beginTransaction()
BeginTransaction ==
    /\ txpc = "idle"
    /\ \E ok \in BOOLEAN :
        /\ connLog' = Append(connLog, ConnCall("beginTransaction", ok))
        /\ IF ok
           THEN /\ txpc' = "callback"
                /\ UNCHANGED txError
           ELSE /\ txpc' = "rollback"
                /\ txError' = NewError("begin failed")
    /\ UNCHANGED <<wrapVars, eqVars, tx2, sql, params, pureVars,
                   callVars, unitInvoked, unitResult,
                   unitFailure, txOutcome>>

\* const result = await callback(): the callback is invoked
InvokeCallback ==
    /\ txpc = "callback"
    /\ unitInvoked' = unitInvoked + 1
    /\ txpc' = "unit"
    /\ UNCHANGED <<wrapVars, eqVars, tx2, sql, params, pureVars,
                   callVars, connLog, unitResult,
                   unitFailure, txError, txOutcome>>

\* number of statements the unit has executed
UnitExecs == Cardinality({i \in DOMAIN connLog : connLog[i].call = "execute"})

\* the callback fails with error e, which transaction's catch block catches
UnitFails(e) ==
    /\ unitFailure' = e
    /\ txError' = e
    /\ txpc' = "rollback"

\* the unit executes a statement with db.exec; when the statement fails the
\* wrapper makes a DatabaseError, which the unit lets propagate or handles
UnitExec ==
    /\ txpc = "unit"
    /\ UnitExecs < MaxUnitCalls
    /\ \/ /\ connLog' = Append(connLog, ConnCall("execute", TRUE))
          /\ UNCHANGED <<txpc, unitFailure, txError, log>>
       \/ \E e \in UnitDriverErrors, handled \in BOOLEAN :
            LET err == wrapDatabaseError(e, UnitSql, UnitParams)
            IN  /\ connLog' = Append(connLog, ConnCall("execute", FALSE))
                /\ log' = Append(log, LogRecord(err))
                /\ IF handled
                   THEN UNCHANGED <<txpc, unitFailure, txError>>
                   ELSE UnitFails(err)
    /\ UNCHANGED <<wrapVars, eqVars, tx2, sql, params, pureVars,
                   adapterHas, pc, op, path,
                   adapterCalls, settled, outcome, unitInvoked, unitResult,
                   txOutcome>>

\* the unit throws an error of its own
UnitThrow ==
    /\ txpc = "unit"
    /\ UnitFails(NewError("Transaction failed"))
    /\ UNCHANGED <<wrapVars, eqVars, tx2, sql, params, pureVars,
                   callVars, connLog, unitInvoked,
                   unitResult, txOutcome>>

\* the unit returns
UnitReturn ==
    /\ txpc = "unit"
    /\ \E v \in UnitValues : unitResult' = v
    /\ txpc' = "commit"
    /\ UNCHANGED <<wrapVars, eqVars, tx2, sql, params, pureVars,
                   callVars, connLog, unitInvoked,
                   unitFailure, txError, txOutcome>>

\* a variant of the commit step that does not return the unit's result
CommitDropsResult ==
    /\ txpc = "commit"
    /\ \E ok \in BOOLEAN :
        /\ connLog' = Append(connLog, ConnCall("commit", ok))
        /\ IF ok
           THEN /\ txpc' = "done"
                /\ txOutcome' = Returned(Single("undefined"))
                /\ UNCHANGED txError
           ELSE /\ txpc' = "rollback"
                /\ txError' = NewError("commit failed")
                /\ UNCHANGED txOutcome
    /\ UNCHANGED <<wrapVars, eqVars, tx2, sql, params, pureVars,
                   callVars, unitInvoked, unitResult,
                   unitFailure>>

\* a variant of the commit step that runs the unit again when commit fails
CommitRetriesUnit ==
    /\ txpc = "commit"
    /\ \E ok \in BOOLEAN :
        /\ connLog' = Append(connLog, ConnCall("commit", ok))
        /\ IF ok
           THEN /\ txpc' = "done"
                /\ txOutcome' = Returned(Single(unitResult))
           ELSE /\ txpc' = "callback"
                /\ UNCHANGED txOutcome
    /\ UNCHANGED <<wrapVars, eqVars, tx2, sql, params, pureVars,
                   callVars, unitInvoked, unitResult,
                   unitFailure, txError>>

\* a variant of the commit step in which a failed commit is thrown without
\* a rollback
CommitSkipsRollback ==
    /\ txpc = "commit"
    /\ \E ok \in BOOLEAN :
        /\ connLog' = Append(connLog, ConnCall("commit", ok))
        /\ txOutcome' = IF ok THEN Returned(Single(unitResult))
                        ELSE Thrown(NewError("commit failed"))
        /\ txError' = IF ok THEN txError ELSE NewError("commit failed")
    /\ txpc' = "done"
    /\ UNCHANGED <<wrapVars, eqVars, tx2, sql, params, pureVars,
                   callVars, unitInvoked, unitResult, unitFailure>>

\* await connection.commit(); return result
Commit ==
    /\ txpc = "commit"
    /\ \E ok \in BOOLEAN :
        /\ connLog' = Append(connLog, ConnCall("commit", ok))
        /\ IF ok
           THEN /\ txpc' = "done"
                /\ txOutcome' = Returned(Single(unitResult))
                /\ UNCHANGED txError
           ELSE /\ txpc' = "rollback"
                /\ txError' = NewError("commit failed")
                /\ UNCHANGED txOutcome
    /\ UNCHANGED <<wrapVars, eqVars, tx2, sql, params, pureVars,
                   callVars, unitInvoked, unitResult,
                   unitFailure>>

\* a variant of the catch block that does not rethrow after the rollback
RollbackSwallows ==
    /\ txpc = "rollback"
    /\ \E ok \in BOOLEAN :
        /\ connLog' = Append(connLog, ConnCall("rollback", ok))
        /\ txOutcome' = IF ok THEN Returned(Single("undefined"))
                        ELSE Thrown(NewError("Rollback failed"))
    /\ txpc' = "done"
    /\ UNCHANGED <<wrapVars, eqVars, tx2, sql, params, pureVars,
                   callVars, unitInvoked, unitResult,
                   unitFailure, txError>>

\* a variant of the catch block that ignores a failure of the rollback
RollbackIgnoresFailure ==
    /\ txpc = "rollback"
    /\ \E ok \in BOOLEAN :
        /\ connLog' = Append(connLog, ConnCall("rollback", ok))
        /\ txOutcome' = Thrown(txError)
    /\ txpc' = "done"
    /\ UNCHANGED <<wrapVars, eqVars, tx2, sql, params, pureVars,
                   callVars, unitInvoked, unitResult,
                   unitFailure, txError>>

\* a variant of the catch block that returns the unit's result when the
\* unit had returned and the rollback succeeds
RollbackReturnsResult ==
    /\ txpc = "rollback"
    /\ \E ok \in BOOLEAN :
        /\ connLog' = Append(connLog, ConnCall("rollback", ok))
        /\ txOutcome' = IF ~ok THEN Thrown(NewError("Rollback failed"))
                        ELSE IF unitResult # ""
                        THEN Returned(Single(unitResult))
                        ELSE Thrown(txError)
    /\ txpc' = "done"
    /\ UNCHANGED <<wrapVars, eqVars, tx2, sql, params, pureVars,
                   callVars, unitInvoked, unitResult,
                   unitFailure, txError>>

\* catch (error) { await connection.rollback(); throw error }
Rollback ==
    /\ txpc = "rollback"
    /\ \E ok \in BOOLEAN :
        /\ connLog' = Append(connLog, ConnCall("rollback", ok))
        /\ txOutcome' = IF ok THEN Thrown(txError)
                        ELSE Thrown(NewError("Rollback failed"))
    /\ txpc' = "done"
    /\ UNCHANGED <<wrapVars, eqVars, tx2, sql, params, pureVars,
                   callVars, unitInvoked, unitResult,
                   unitFailure, txError>>

\* the error connection.beginTransaction / commit / rollback rejects with
ConnFailure(m) ==
    NewError(CASE m = "beginTransaction" -> "begin failed"
               [] m = "commit"           -> "commit failed"
               [] OTHER                  -> "Rollback failed")

\* index.js: db.beginTransaction(), db.commit() or db.rollback(), called by
\* hand.  The member calls adapter[m](connection), looked up on the adapter
\* object now; the adapter method awaits connection[m]() and rethrows what
\* it rejects with
DbMember(m) ==
    /\ txpc \in {"idle", "manual"}
    /\ pc = "idle"
    /\ db.status = "created"
    /\ m \in db.functions
    /\ IF m \in adapterHas
       THEN /\ Len(connLog) < MaxManualCalls
            /\ \E ok \in BOOLEAN :
                /\ connLog' = Append(connLog, ConnCall(m, ok))
                /\ txOutcome' = IF ok THEN Returned(Single("undefined"))
                                ELSE Thrown(ConnFailure(m))
       ELSE /\ txOutcome' = Thrown(TypeError)
            /\ UNCHANGED connLog
    /\ txpc' = "manual"
    /\ UNCHANGED <<wrapVars, eqVars, tx2, sql, params, pureVars, callVars,
                   unitInvoked, unitResult, unitFailure, txError>>

DbBeginTransaction == DbMember("beginTransaction")
DbCommit           == DbMember("commit")
DbRollback         == DbMember("rollback")

NextTx == \/ BeginTransaction
          \/ InvokeCallback
          \/ UnitExec
          \/ UnitThrow
          \/ UnitReturn
          \/ Commit
          \/ Rollback
          \/ DbBeginTransaction
          \/ DbCommit
          \/ DbRollback

SpecTx == InitTx /\ [][NextTx]_vars

(***************************************************************************)
(* Two transaction() calls on one connection.  The second call is made by  *)
(* the unit of the first call, which awaits it, or by other code while the *)
(* first call is suspended at one of its awaits.  transaction keeps no     *)
(* state between calls, so the second call runs the same code.             *)
(***************************************************************************)
\* the unit of the first call is awaiting the second call
AwaitingSecond == tx2.awaited /\ tx2.pc \notin {"idle", "done"}

\* the first call has issued its begin and has not finished
FirstOpen == txpc \in {"callback", "unit", "commit", "rollback"}

\* second call: try { await connection.beginTransaction()
SecondBegin ==
    /\ tx2.pc = "idle"
    /\ \E awaited \in BOOLEAN, ok \in BOOLEAN :
        /\ IF awaited THEN txpc = "unit" ELSE FirstOpen
        /\ connLog' = Append(connLog, ConnCall("beginTransaction", ok))
        /\ tx2' = IF ok
                  THEN [tx2 EXCEPT !.pc = "unit", !.awaited = awaited]
                  ELSE [tx2 EXCEPT !.pc = "rollback", !.awaited = awaited,
                                   !.error = NewError("begin failed")]
    /\ UNCHANGED <<wrapVars, eqVars, sql, params, pureVars, callVars, txpc,
                   unitInvoked, unitResult, unitFailure, txError, txOutcome>>

\* second call: const result = await callback(), the unit returns
SecondUnitReturn ==
    /\ tx2.pc = "unit"
    /\ \E v \in UnitValues : tx2' = [tx2 EXCEPT !.pc = "commit", !.result = v]
    /\ UNCHANGED <<wrapVars, eqVars, sql, params, pureVars, callVars, txVars>>

\* second call: the unit fails
SecondUnitThrow ==
    /\ tx2.pc = "unit"
    /\ tx2' = [tx2 EXCEPT !.pc = "rollback",
                          !.error = NewError("Transaction failed")]
    /\ UNCHANGED <<wrapVars, eqVars, sql, params, pureVars, callVars, txVars>>

\* second call: await connection.commit(); return result
SecondCommit ==
    /\ tx2.pc = "commit"
    /\ \E ok \in BOOLEAN :
        /\ connLog' = Append(connLog, ConnCall("commit", ok))
        /\ tx2' = IF ok
                  THEN [tx2 EXCEPT !.pc = "done",
                                   !.outcome = Returned(Single(tx2.result))]
                  ELSE [tx2 EXCEPT !.pc = "rollback",
                                   !.error = NewError("commit failed")]
    /\ UNCHANGED <<wrapVars, eqVars, sql, params, pureVars, callVars, txpc,
                   unitInvoked, unitResult, unitFailure, txError, txOutcome>>

\* second call: catch (error) { await connection.rollback(); throw error }
SecondRollback ==
    /\ tx2.pc = "rollback"
    /\ \E ok \in BOOLEAN :
        /\ connLog' = Append(connLog, ConnCall("rollback", ok))
        /\ tx2' = [tx2 EXCEPT !.pc = "done",
                              !.outcome = IF ok THEN Thrown(tx2.error)
                                          ELSE Thrown(NewError("Rollback failed"))]
    /\ UNCHANGED <<wrapVars, eqVars, sql, params, pureVars, callVars, txpc,
                   unitInvoked, unitResult, unitFailure, txError, txOutcome>>

\* the unit of the first call goes on when it is not awaiting the second
\* call
FirstUnitExec   == ~AwaitingSecond /\ UnitExec
FirstUnitThrow  == ~AwaitingSecond /\ UnitThrow
FirstUnitReturn == ~AwaitingSecond /\ UnitReturn

NextNest == \/ BeginTransaction
            \/ InvokeCallback
            \/ FirstUnitExec
            \/ FirstUnitThrow
            \/ FirstUnitReturn
            \/ Commit
            \/ Rollback
            \/ SecondBegin
            \/ SecondUnitReturn
            \/ SecondUnitThrow
            \/ SecondCommit
            \/ SecondRollback

SpecNest == InitTx /\ [][NextNest]_vars

(***************************************************************************)
(* index.js: wrap, and calls through the object it returns.  The adapter   *)
(* object require returns is shared: its methods can be deleted or put     *)
(* back before and after wrap, between calls.                              *)
(***************************************************************************)
WrapSqls   == {<<"?">>}
WrapParams == {ArrayOf(<<>>), ArrayOf(<<"1">>)}

InitWrap == /\ sql = <<>>
            /\ params = ArrayOf(<<>>)
            /\ adapterHas = AdapterMethods
            /\ PureIdle /\ CallIdle /\ TxIdle /\ WrapIdle /\ EqIdle /\ Tx2Idle

\* the optional methods of the object a module exports: those of the
\* adapter for adapters/mysql.js, none of them for index.js
MethodsOf(module) == IF module = "adapters/mysql" THEN adapterHas ELSE {}

Wrap ==
    /\ db.status = "none"
    /\ \E c \in Connections, t \in AdapterTypes :
        /\ db' = wrap(c, t, MethodsOf(Require(t)))
        /\ hasAtWrap' = IF db'.status = "created" THEN MethodsOf(Require(t))
                        ELSE {}
    /\ UNCHANGED <<mutations, eqVars, tx2, sql, params, pureVars, callVars,
                   txVars>>

\* adapter[m] = function: between calls
AddMethod ==
    /\ mutations < MaxMutations
    /\ db.status # "threw"
    /\ pc = "idle"
    /\ txpc = "idle"
    /\ \E m \in AdapterMethods \ adapterHas : adapterHas' = adapterHas \cup {m}
    /\ mutations' = mutations + 1
    /\ UNCHANGED <<db, hasAtWrap, eqVars, tx2, sql, params, pureVars, pc, op, path,
                   adapterCalls, settled, outcome, log, txVars>>

\* delete adapter[m]: between calls
RemoveMethod ==
    /\ mutations < MaxMutations
    /\ db.status # "threw"
    /\ pc = "idle"
    /\ txpc = "idle"
    /\ \E m \in adapterHas : adapterHas' = adapterHas \ {m}
    /\ mutations' = mutations + 1
    /\ UNCHANGED <<db, hasAtWrap, eqVars, tx2, sql, params, pureVars, pc, op, path,
                   adapterCalls, settled, outcome, log, txVars>>

\* db.query / db.getOne / db.get / db.exec are the methods of the DbWrapper
\* made over the adapter object; the calls modelled are those over the
\* MySQL adapter
DbQuery ==
    /\ db.status = "created"
    /\ db.adapter = "adapters/mysql"
    /\ txpc = "idle"
    /\ QueryWith(WrapSqls, WrapParams)

DbHelper(o) ==
    /\ db.status = "created"
    /\ db.adapter = "adapters/mysql"
    /\ txpc = "idle"
    /\ HelperWith(o, WrapSqls, WrapParams)

DbGetOne == DbHelper("getOne")
DbGet    == DbHelper("get")
DbExec   == DbHelper("exec")

\* db.transaction(callback): the member calls adapter.transaction, looked
\* up on the adapter object now
DbTransaction ==
    /\ db.status = "created"
    /\ "transaction" \in db.functions
    /\ pc = "idle"
    /\ txpc = "idle"
    /\ IF "transaction" \in adapterHas
       THEN BeginTransaction
       ELSE /\ txOutcome' = Thrown(TypeError)
            /\ txpc' = "done"
            /\ UNCHANGED <<wrapVars, eqVars, tx2, sql, params, pureVars, callVars,
                           connLog, unitInvoked, unitResult, unitFailure,
                           txError>>

NextWrap == \/ Wrap
            \/ AddMethod
            \/ RemoveMethod
            \/ DbQuery
            \/ DbGetOne
            \/ DbGet
            \/ DbExec
            \/ AdapterResolve
            \/ AdapterReject
            \/ DbBeginTransaction
            \/ DbCommit
            \/ DbRollback
            \/ DbTransaction
            \/ InvokeCallback
            \/ UnitExec
            \/ UnitThrow
            \/ UnitReturn
            \/ Commit
            \/ Rollback

SpecWrap == InitWrap /\ [][NextWrap]_vars

(***************************************************************************)
(* Properties                                                              *)
(***************************************************************************)
Count(seq, P(_)) == Cardinality({i \in DOMAIN seq : P(seq[i])})

IsValidationError(e) == e.kind = "DatabaseError" /\ e.type \in ValidationTypes

\* the adapter method the current call has to use
ExpectedMethod == IF path = "specialized" THEN op ELSE "executeQuery"

\* C1: for query, getOne, get and exec, on the specialized and the fallback
\* path: when validation fails no adapter method is invoked and the call
\* fails with VALIDATION_MISMATCH or VALIDATION_EMPTY; when validation
\* passes exactly one adapter method is invoked, exactly once.
C1_ValidateThenOneCall ==
    /\ Len(adapterCalls) <= 1
    /\ pc # "idle" =>
         IF validateParams(sql, params).ok
         THEN /\ Len(adapterCalls) = 1
              /\ adapterCalls[1].method = ExpectedMethod
         ELSE /\ Len(adapterCalls) = 0
              /\ pc = "done"
              /\ outcome.status = "threw"
              /\ IsValidationError(outcome.error)

C1_Witness ==
    /\ pc = "done"
    /\ op = "getOne"
    /\ path = "specialized"
    /\ sql = <<"?", "?">>
    /\ params = ArrayOf(<<"1">>)
    /\ outcome.error.type = "VALIDATION_MISMATCH"
    /\ adapterCalls = <<>>

\* the parameters supplied by a params argument: the items of a sequence,
\* a single non-sequence value as one parameter, none for null or undefined
Supplied(p) ==
    IF p.arr THEN p.items
    ELSE IF p.items[1] \in {"null", "undefined"} THEN <<>>
    ELSE p.items

\* C2: validateParams(sql, params) succeeds if and only if the number of
\* supplied parameters equals countPlaceholders(sql) and no supplied
\* parameter is null, undefined or the empty string; otherwise it raises a
\* DatabaseError.
C2_ValidateIff ==
    vres # NotRun =>
        /\ vres.ok <=>
             /\ Len(Supplied(params)) = countPlaceholders(sql)
             /\ \A i \in DOMAIN Supplied(params) :
                    ~IsEmptyValue(Supplied(params)[i])
        /\ ~vres.ok => vres.error.kind = "DatabaseError"

\* C3: whatever value the adapter call rejects with, the caller receives a
\* DatabaseError whose type is one of the DB_ types.
C3_RejectionAlwaysClassified ==
    pc = "done" /\ settled.how = "rejected" =>
        /\ outcome.status = "threw"
        /\ outcome.error.kind = "DatabaseError"
        /\ outcome.error.type \in DbTypes

IsCall(name) == LET P(c) == c.call = name IN Count(connLog, P)

RollbackOk == /\ Len(connLog) > 0
              /\ connLog[Len(connLog)] = ConnCall("rollback", TRUE)
RollbackFailed == /\ Len(connLog) > 0
                  /\ connLog[Len(connLog)] = ConnCall("rollback", FALSE)

\* C4: when the unit of work fails and the rollback succeeds, rollback was
\* invoked, commit was never invoked, and the caller gets the unit's failure
\* unchanged.
C4_UnitFailureSurfaces ==
    txpc = "done" /\ unitFailure # NoError =>
        /\ IsCall("rollback") = 1
        /\ IsCall("commit") = 0
        /\ RollbackOk => txOutcome = Thrown(unitFailure)

C4_Witness ==
    /\ txpc = "done"
    /\ unitFailure.kind = "DatabaseError"
    /\ unitFailure.type = "DB_DUPLICATE"
    /\ connLog = <<ConnCall("beginTransaction", TRUE), ConnCall("execute", TRUE),
                   ConnCall("execute", FALSE), ConnCall("rollback", TRUE)>>
    /\ txOutcome.status = "threw"
    /\ txOutcome.error.type = "DB_DUPLICATE"
    /\ txOutcome.error.message = "This record already exists"

\* C5: when the unit of work and the rollback both fail, the caller gets the
\* rollback's failure, not the unit's, and commit is never invoked.
C5_RollbackFailureSurfaces ==
    txpc = "done" /\ unitFailure # NoError /\ RollbackFailed =>
        /\ txOutcome = Thrown(NewError("Rollback failed"))
        /\ txOutcome.error # unitFailure
        /\ IsCall("commit") = 0

C5_Witness ==
    /\ txpc = "done"
    /\ unitFailure = NewError("Transaction failed")
    /\ RollbackFailed
    /\ txOutcome.error.message = "Rollback failed"

CommitOk == /\ Len(connLog) > 0
            /\ connLog[Len(connLog)] = ConnCall("commit", TRUE)

\* C6: when begin, the unit and commit all succeed, the connection sees
\* begin, then the unit's calls, then commit; rollback is never invoked; the
\* caller gets exactly the value the unit returned.
C6_CommitOnSuccess ==
    txpc = "done" /\ CommitOk =>
        /\ connLog[1] = ConnCall("beginTransaction", TRUE)
        /\ \A i \in 2..(Len(connLog) - 1) : connLog[i].call = "execute"
        /\ IsCall("beginTransaction") = 1
        /\ IsCall("commit") = 1
        /\ IsCall("rollback") = 0
        /\ unitInvoked = 1
        /\ txOutcome = Returned(Single(unitResult))

C6_Witness ==
    /\ txpc = "done"
    /\ connLog = <<ConnCall("beginTransaction", TRUE), ConnCall("execute", TRUE),
                   ConnCall("execute", TRUE), ConnCall("commit", TRUE)>>
    /\ unitResult = "success"
    /\ txOutcome.status = "returned"
    /\ txOutcome.value = Single("success")

\* C7 as stated: in every transaction(unit) call the unit is invoked exactly
\* once, whatever the outcomes of begin, commit and rollback.
C7_UnitExactlyOnce ==
    txpc = "done" => unitInvoked = 1

\* C7: the unit is never invoked twice; in a completed transaction(unit)
\* call it was invoked exactly once when begin succeeded, whatever the
\* outcomes of commit and rollback, and not at all when begin failed.
C7_UnitOnceIfBegun ==
    /\ unitInvoked <= 1
    /\ txpc = "done" =>
         unitInvoked = IF connLog[1] = ConnCall("beginTransaction", TRUE)
                       THEN 1 ELSE 0

C7_Witness ==
    /\ txpc = "done"
    /\ unitInvoked = 1
    /\ \E i \in DOMAIN connLog : connLog[i] = ConnCall("commit", FALSE)
    /\ RollbackFailed

DuplicateCodes == {"ER_DUP_ENTRY", "SQLITE_CONSTRAINT", "23505"}

NumQuestionMarks(s) == Cardinality({i \in DOMAIN s : s[i] = "?"})

\* positions of a '$' that is followed by a digit
DollarTokens(s) == {i \in DOMAIN s : s[i] = "$" /\ i < Len(s) /\ IsDigit(s[i + 1])}
\* positions of a ':' that is followed by a word character
NamedTokens(s) == {i \in DOMAIN s : s[i] = ":" /\ i < Len(s) /\ IsWord(s[i + 1])}

\* C9: for SQL text with exactly N >= 1 '?' characters the result is N,
\* whatever the surrounding text; '$n' and ':name' tokens in the same text
\* add nothing.
C9_QuestionMarksWin ==
    count # -1 /\ NumQuestionMarks(sql) >= 1 => count = NumQuestionMarks(sql)

C9_Witness ==
    /\ count = 1
    /\ NumQuestionMarks(sql) = 1
    /\ DollarTokens(sql) # {}
    /\ NamedTokens(sql) # {}

\* the digits of the token at position i: the longest run of digits after '$'
TokenDigits(s, i) ==
    LET last == CHOOSE j \in (i + 1)..Len(s) :
                    /\ \A k \in (i + 1)..j : IsDigit(s[k])
                    /\ j = Len(s) \/ ~IsDigit(s[j + 1])
    IN  SubSeq(s, i + 1, last)

\* a digit string without its leading zeros: two digit strings denote the
\* same number exactly when these agree
Canonical(d) ==
    LET nz == {k \in DOMAIN d : d[k] # "0"}
    IN  IF nz = {} THEN <<"0">>
        ELSE SubSeq(d, CHOOSE k \in nz : \A m \in nz : k <= m, Len(d))

DistinctNumbers(s) == {Canonical(TokenDigits(s, i)) : i \in DollarTokens(s)}

\* C10: for SQL text with no '?' and at least one '$<digits>' token the
\* result is the number of distinct numeric values among those tokens;
\* ':name' tokens in the same text are ignored.
C10_DistinctDollarNumbers ==
    /\ count # -1
    /\ NumQuestionMarks(sql) = 0
    /\ DollarTokens(sql) # {}
    => count = Cardinality(DistinctNumbers(sql))

C10_Witness ==
    /\ count = 1
    /\ sql = <<"$", "1", "$", "0", "1">>

\* C11: for SQL text with no '?' and no '$<digits>' token the result is the
\* number of occurrences of ':' followed by word characters, a repeated
\* name counting each time, and 0 when there is none.
C11_NamedOccurrences ==
    /\ count # -1
    /\ NumQuestionMarks(sql) = 0
    /\ DollarTokens(sql) = {}
    => count = Cardinality(NamedTokens(sql))

C11_Witness ==
    /\ count = 2
    /\ sql = <<":", "a", " ", ":", "a">>

\* C12: a params value that is a sequence is used as is; a single
\* non-sequence value v, falsy ones included, is validated as [v]; only null
\* and undefined are validated as the empty sequence.
C12_SingleValueIsOneParameter ==
    vres # NotRun => vres = validateParams(sql, ArrayOf(Supplied(params)))

EmptyIndexes(a) == {i \in DOMAIN a : IsEmptyValue(a[i])}

\* C13: with paramArray the normalized parameters: when their number differs
\* from the placeholder count the failure is VALIDATION_MISMATCH, even if a
\* parameter is empty; when the numbers agree and a parameter is null,
\* undefined or '', the failure is VALIDATION_EMPTY and reports the smallest
\* such index (from 0); the user message is 'Invalid request parameters'.
C13_FailureCategory ==
    vres # NotRun =>
        LET a == ParamArray(params)
        IN  /\ Len(a) # countPlaceholders(sql) =>
                 /\ ~vres.ok
                 /\ vres.error.type = "VALIDATION_MISMATCH"
                 /\ vres.error.message = "Invalid request parameters"
            /\ Len(a) = countPlaceholders(sql) /\ EmptyIndexes(a) # {} =>
                 /\ ~vres.ok
                 /\ vres.error.type = "VALIDATION_EMPTY"
                 /\ vres.error.message = "Invalid request parameters"
                 /\ vres.error.details.index + 1 \in EmptyIndexes(a)
                 /\ \A i \in EmptyIndexes(a) : vres.error.details.index + 1 <= i

C13_Witness ==
    /\ vres # NotRun
    /\ sql = <<"?", "?">>
    /\ params = ArrayOf(<<"1", "''">>)
    /\ vres.error.type = "VALIDATION_EMPTY"
    /\ vres.error.details.index = 1

\* C14: on the fallback path getOne returns the first element of the raw
\* result sequence, and null when the sequence is empty or the raw result
\* is not a sequence; get returns the raw sequence, and the empty sequence
\* when the raw result is not a sequence; exec returns the raw result.
C14_FallbackPostProcessing ==
    pc = "done" /\ path = "fallback" /\ settled.how = "resolved" =>
        LET raw == settled.value
        IN  /\ outcome.status = "returned"
            /\ op = "getOne" /\ raw.arr /\ raw.rows # <<>> =>
                 outcome.value = Single(Head(raw.rows))
            /\ op = "getOne" /\ (~raw.arr \/ raw.rows = <<>>) =>
                 outcome.value = Single("null")
            /\ op = "get" /\ raw.arr => outcome.value = raw
            /\ op = "get" /\ ~raw.arr => outcome.value = Rows(<<>>)
            /\ op = "exec" => outcome.value = raw

C14_Witness ==
    /\ pc = "done"
    /\ path = "fallback"
    /\ op = "get"
    /\ settled = Resolved(Single("report"))
    /\ outcome = Returned(Rows(<<>>))

IsRowOrNull(v) == ~v.arr /\ v.other \in {"r1", "r2", "null"}

\* C16: for any adapter a successful get() yields a sequence and a
\* successful getOne() yields a single row or null, also when the adapter's
\* own get / getOne returns something else.
C16_ResultShape ==
    pc = "done" /\ outcome.status = "returned" =>
        /\ op = "get" => outcome.value.arr
        /\ op = "getOne" => IsRowOrNull(outcome.value)

\* what the caller observes of an outcome: the returned value, or the kind,
\* type and message of the error
Observed(o) == [status |-> o.status, value |-> o.value,
                kind |-> o.error.kind, type |-> o.error.type,
                message |-> o.error.message]

\* C15: over the MySQL adapter, for every sql, params and outcome of the
\* driver, getOne, get and exec return the same value or fail with an error
\* of the same type and message on the fallback path (method removed) as on
\* the specialized path (method present).
C15_PathEquivalence ==
    pc = "done" /\ path = "fallback" => Observed(outcome) = Observed(eqFirst)

C15_Witness ==
    /\ pc = "done"
    /\ path = "fallback"
    /\ eqIn.op = "getOne"
    /\ eqIn.driver = Resolved(Rows(<<"r1", "r2">>))
    /\ eqFirst = Returned(Single("r1"))
    /\ outcome = Returned(Single("r1"))

\* C17: when a call of db.beginTransaction, db.commit, db.rollback or
\* db.transaction fails, because the connection call fails or because the
\* unit of work fails, the caller gets a DatabaseError, never the raw error
\* of the driver or of the unit.
C17_MemberFailuresClassified ==
    txpc \in {"done", "manual"} /\ txOutcome.status = "threw"
        => txOutcome.error.kind = "DatabaseError"

\* the adapter kinds there is an implementation for
RegisteredKinds == {"mysql"}

\* C18: wrap fails with a configuration error and makes no object when the
\* connection is absent (checked first), when the kind is absent, or when
\* no adapter is registered for the kind, in which case the message names
\* the kind and lists the known kinds; with a connection and the kind
\* 'mysql' it succeeds.
C18_ConfigurationErrors ==
    db.status # "none" =>
        /\ db.connection = Absent =>
                /\ db.status = "threw"
                /\ db.error = ConfigError(<<"Connection object is required">>)
        /\ db.connection # Absent /\ Falsy(db.adapterType) =>
                /\ db.status = "threw"
                /\ db.error.kind = "Error"
                /\ db.error # ConfigError(<<"Connection object is required">>)
        /\ /\ db.connection # Absent
           /\ ~Falsy(db.adapterType)
           /\ db.adapterType \notin RegisteredKinds
           => /\ db.status = "threw"
              /\ db.error.kind = "Error"
              /\ db.adapterType \in Range(db.error.pieces)
              /\ RegisteredKinds \subseteq Range(db.error.pieces)
        /\ db.connection # Absent /\ db.adapterType = "mysql" =>
                db.status = "created"

\* C19: the object wrap returns has the member beginTransaction, commit,
\* rollback or transaction exactly when the adapter has that method; a
\* capability the adapter lacks is no member at all, not even a key that
\* holds undefined.
C19_MemberIffCapability ==
    db.status = "created" =>
        \A m \in TxMethods : m \in db.members <=> m \in hasAtWrap

MemberCalled ==
    /\ txpc \in {"idle", "manual"}
    /\ <<txpc, connLog, txOutcome>>' # <<txpc, connLog, txOutcome>>

RejectedWithObject ==
    /\ pc = "done"
    /\ settled.how = "rejected"
    /\ settled.reason.kind = "object"
    /\ settled.reason.msg.form # "nonstring"

Surfaces(type, message) ==
    /\ outcome.status = "threw"
    /\ outcome.error.kind = "DatabaseError"
    /\ outcome.error.type = type
    /\ outcome.error.message = message

\* C21: an error whose code is '23503' is classified DB_FOREIGN_KEY with the
\* message 'Cannot perform this operation', whatever the text of its message
\* contains.
C21_ForeignKeyCode ==
    RejectedWithObject /\ settled.reason.code = "23503"
        => Surfaces("DB_FOREIGN_KEY", "Cannot perform this operation")

\* the codes of the duplicate, table-not-found, unknown-column and
\* foreign-key rules
EarlierRuleCodes == {"ER_DUP_ENTRY", "ER_NO_SUCH_TABLE", "ER_BAD_FIELD_ERROR",
                     "SQLITE_CONSTRAINT", "23505", "23503"}

ConnectionCodes == {"ECONNREFUSED", "ENOTFOUND", "ETIMEDOUT"}

\* e has a message with the method includes, and the text contains k
Contains(e, k) == e.msg.form = "string" /\ k \in e.msg.has

\* C22: for an error that matches none of the duplicate, table-not-found,
\* unknown-column and foreign-key rules: a connection code or a message
\* containing 'connect' gives DB_CONNECTION; otherwise a message containing
\* 'syntax' or 'SQL' gives DB_QUERY; otherwise DB_UNKNOWN.
C22_ConnectionQueryUnknown ==
    /\ pc = "done"
    /\ settled.how = "rejected"
    /\ settled.reason.kind = "object"
    /\ settled.reason.code \notin EarlierRuleCodes
    /\ ~Contains(settled.reason, "UNIQUE constraint")
    => LET e == settled.reason
       IN  IF e.code \in ConnectionCodes \/ Contains(e, "connect")
           THEN Surfaces("DB_CONNECTION", "Unable to connect to database")
           ELSE IF Contains(e, "syntax") \/ Contains(e, "SQL")
           THEN Surfaces("DB_QUERY", "Unable to process request")
           ELSE Surfaces("DB_UNKNOWN",
                         "Something went wrong. Please try again.")

\* C23: when validation or the adapter call raises an error that already is
\* a DatabaseError, query, getOne, get and exec raise that same error, type,
\* message and details unchanged, and wrapDatabaseError is not applied to
\* it: no further DatabaseError is constructed.
C23_ClassifiedPassThrough ==
    /\ /\ pc = "done"
       /\ settled.how = "rejected"
       /\ settled.reason.kind = "DatabaseError"
       => /\ outcome = Thrown(settled.reason.dberr)
          /\ log = <<>>
    /\ pc = "done" /\ ~validateParams(sql, params).ok
       => /\ outcome = Thrown(validateParams(sql, params).error)
          /\ log = <<LogRecord(validateParams(sql, params).error)>>

C23_Witness ==
    /\ pc = "done"
    /\ op = "get"
    /\ path = "fallback"
    /\ settled.reason = Classified(DatabaseError("This record already exists",
                                                 NoDetails, "DB_DUPLICATE"))
    /\ outcome.error.type = "DB_DUPLICATE"
    /\ outcome.error.details = NoDetails

\* C24: a DatabaseError emits its diagnostic record (type, user message,
\* details) when it is constructed, so every failing query / getOne / get /
\* exec call has emitted the record of the error it surfaces when the caller
\* observes the failure, and has emitted it once, also on the fallback path.
\* (An error that was already a DatabaseError when the adapter raised it
\* emitted its record where it was constructed: the call emits none for it.)
C24_DiagnosticEmittedOnce ==
    pc = "done" /\ outcome.status = "threw" =>
        IF settled.how = "rejected" /\ settled.reason.kind = "DatabaseError"
        THEN log = <<>>
        ELSE log = <<LogRecord(outcome.error)>>

\* the user message that belongs to each error type
UserMessageOf(type) ==
    CASE type \in {"VALIDATION_MISMATCH", "VALIDATION_EMPTY", "DB_FIELD_ERROR"}
             -> "Invalid request parameters"
      [] type = "DB_DUPLICATE"   -> "This record already exists"
      [] type = "DB_FOREIGN_KEY" -> "Cannot perform this operation"
      [] type \in {"DB_TABLE_NOT_FOUND", "DB_QUERY"}
             -> "Unable to process request"
      [] type = "DB_CONNECTION"  -> "Unable to connect to database"
      [] type = "DB_UNKNOWN"     -> "Something went wrong. Please try again."
      [] OTHER                   -> "<no such type>"

\* C25: the message of every error query, getOne, get or exec raise is one
\* of the fixed user-facing strings and is determined by the type of the
\* error alone, whatever the driver's message, the error code, the SQL text
\* and the parameter values were.
C25_MessageFromTypeAlone ==
    pc = "done" /\ outcome.status = "threw" =>
        /\ outcome.error.type \in ValidationTypes \cup DbTypes
        /\ outcome.error.message = UserMessageOf(outcome.error.type)

IsBegin(c) == c.call = "beginTransaction"
IsClose(c) == c.call \in {"commit", "rollback"}

\* the commits and rollbacks issued after the begin at position i and
\* before the next begin
ClosesAfter(i) ==
    {k \in DOMAIN connLog :
        /\ k > i
        /\ IsClose(connLog[k])
        /\ \A j \in DOMAIN connLog : i < j /\ j < k => ~IsBegin(connLog[j])}

\* C26: transactions on one connection are flat: the connection sees begin,
\* the calls of the unit, then exactly one of commit or rollback, and no
\* second begin is issued before that bracket is closed, also when a unit
\* calls transaction() itself and when two transaction() calls overlap.
C26_FlatBrackets ==
    /\ \A i, j \in DOMAIN connLog :
          i < j /\ IsBegin(connLog[i]) /\ connLog[i].ok /\ IsBegin(connLog[j])
              => \E k \in DOMAIN connLog : i < k /\ k < j /\ IsClose(connLog[k])
    /\ txpc = "done" /\ tx2.pc \in {"idle", "done"}
          => \A i \in DOMAIN connLog :
                IsBegin(connLog[i]) => Cardinality(ClosesAfter(i)) = 1

CommitSucceeded == \E i \in DOMAIN connLog : connLog[i] = ConnCall("commit", TRUE)
CommitFailed    == \E i \in DOMAIN connLog : connLog[i] = ConnCall("commit", FALSE)

\* C27: when transaction(unit) completes, either commit was invoked and
\* succeeded, rollback was never invoked and the unit's result is returned,
\* or rollback was invoked exactly once and the call fails; never a result
\* after a rollback attempt, never a failure without one.
C27_CommitOrRollback ==
    txpc = "done" =>
        \/ /\ CommitSucceeded
           /\ IsCall("rollback") = 0
           /\ txOutcome = Returned(Single(unitResult))
        \/ /\ ~CommitSucceeded
           /\ IsCall("rollback") = 1
           /\ txOutcome.status = "threw"

C27_Witness ==
    /\ txpc = "done"
    /\ connLog = <<ConnCall("beginTransaction", TRUE), ConnCall("execute", TRUE),
                   ConnCall("rollback", TRUE)>>
    /\ txOutcome = Thrown(NewError("Transaction failed"))

\* C28: when begin fails, the unit and commit are never invoked, rollback is
\* invoked once all the same, and the caller gets the begin failure when the
\* rollback succeeds and the rollback failure when it fails too.
C28_BeginFailure ==
    txpc = "done" /\ connLog[1] = ConnCall("beginTransaction", FALSE) =>
        /\ unitInvoked = 0
        /\ IsCall("execute") = 0
        /\ IsCall("commit") = 0
        /\ IsCall("rollback") = 1
        /\ txOutcome = IF RollbackOk THEN Thrown(NewError("begin failed"))
                       ELSE Thrown(NewError("Rollback failed"))

C28_Witness ==
    /\ txpc = "done"
    /\ connLog = <<ConnCall("beginTransaction", FALSE),
                   ConnCall("rollback", TRUE)>>
    /\ unitInvoked = 0
    /\ txOutcome = Thrown(NewError("begin failed"))

\* C29: when the unit succeeds and commit fails, rollback is invoked after
\* the failed commit, the unit's result is not returned, and the caller gets
\* the commit failure when the rollback succeeds and the rollback failure
\* when it fails too.
C29_CommitFailure ==
    txpc = "done" /\ CommitFailed =>
        /\ IsCall("commit") = 1
        /\ IsCall("rollback") = 1
        /\ connLog[Len(connLog) - 1] = ConnCall("commit", FALSE)
        /\ connLog[Len(connLog)].call = "rollback"
        /\ txOutcome.status = "threw"
        /\ txOutcome = IF RollbackOk THEN Thrown(NewError("commit failed"))
                       ELSE Thrown(NewError("Rollback failed"))

C29_Witness ==
    /\ txpc = "done"
    /\ unitResult = "success"
    /\ connLog = <<ConnCall("beginTransaction", TRUE), ConnCall("execute", TRUE),
                   ConnCall("commit", FALSE), ConnCall("rollback", TRUE)>>
    /\ txOutcome = Thrown(NewError("commit failed"))

\* C30: on a successful query, getOne, get or exec the adapter method gets
\* the caller's SQL text and the caller's params as they were supplied, not
\* the array validation normalized them to (a scalar or null stays a scalar
\* or null; omitted params are the empty array); sql and params are not
\* changed during the call; query returns the adapter's result unchanged.
C30_PassThrough ==
    [][/\ DefaultParams(Scalar("undefined")) = ArrayOf(<<>>)
       /\ pc = "idle" /\ pc' = "awaiting" =>
              /\ adapterCalls' =
                    <<[method |-> IF path' = "specialized" THEN op'
                                  ELSE "executeQuery",
                       sql |-> sql', params |-> params']>>
              /\ params' # Scalar("undefined")
       /\ pc # "idle" => sql' = sql /\ params' = params
       /\ pc = "awaiting" /\ op = "query" /\ settled'.how = "resolved" =>
              outcome' = Returned(settled'.value)]_vars

C30_Witness ==
    /\ pc = "done"
    /\ op = "query"
    /\ sql = <<" ">>
    /\ params = Scalar("null")
    /\ adapterCalls = <<[method |-> "executeQuery", sql |-> <<" ">>,
                         params |-> Scalar("null")]>>
    /\ settled = Resolved(Rows(<<"r1">>))
    /\ outcome = Returned(Rows(<<"r1">>))


====
